---- MODULE Spec2Model ----
(***************************************************************************)
(* A model of the CVS commit analyzer (commit-analyzer/cvs_analyzer.py):   *)
(* the log parser, the time-windowed grouping of revision records into     *)
(* changesets, the representative comment the exporters compute, and the   *)
(* analyze_repository pipeline that strings them together.                 *)
(*                                                                         *)
(* A CVSLogParser object is constructed (Init) and one of its methods is   *)
(* called with arguments drawn from bounded sets; the call's arguments and *)
(* its outcome are kept in the state so that properties relate them.       *)
(***************************************************************************)
EXTENDS Integers, Sequences, FiniteSets, TLC

VARIABLES
    call,            \* the method that was called, "none" before any call
    raised,          \* the exception that escaped the call, "none" if it returned
    arg_entries,     \* group_commits: the entries argument
    arg_window,      \* group_commits / analyze_repository: the time window
    ret_groups,      \* group_commits: the returned list of groups
    arg_text,        \* parse_log_output / analyze_repository: the log output
    ret_parsed,      \* parse_log_output: the returned value, by component
    warnings,        \* number of "Could not parse date" warnings printed
    ret_value,       \* analyze_repository: "None" or "excel_file"
    arg_groups,      \* export_to_excel / save_json_backup: the groups argument
    common_comments, \* the Common_Comment column written, one per group
    log_entries,     \* self.log_entries
    grouped_commits, \* self.grouped_commits
    ret_second,      \* parse_log_output: the list a second call returned
    arg_path,        \* extract_filename: the rcs_path argument
    ret_path,        \* extract_filename: the returned path
    scan_lines,      \* the line scan of one section: its lines,
    scan_i,          \*   the index i of the outer while loop (1-based),
    scan_entries,    \*   the entries appended so far,
    scan_warned,     \*   the warnings printed so far
    json_file,       \* the content of cvs_analysis_backup.json
    last_groups,     \* MainWindow.last_groups
    last_outdir,     \* MainWindow.last_outdir
    thread_pc,       \* where the AnalyzerThread of the last on_run stands in run()
    cancel_requested, \* its _cancel_requested
    thread_result,   \* what its analyzer holds once analyze_repository returned
    signals,         \* signals emitted by the thread, queued for the main thread
    dialog_open,     \* on_cancel is waiting in its QMessageBox.question
    run_enabled,     \* run_btn.isEnabled()
    cancel_enabled,  \* cancel_btn.isEnabled()
    runs,            \* number of threads started so far
    before_run,      \* last_groups and last_outdir when the thread was started
    cancel_in_time,  \* request_cancel ran before analyze_repository returned
    returned_run,    \* analyze_repository returned or raised in this thread
    emitted,         \* the signal that ended run(): finished, canceled or error
    argv,            \* cvs_config.main: the options of the command line
    main_return,     \* the value main() returned, "none" if it did not return
    analysis_called  \* main() reached analyzer.analyze_repository(...)

coreVars == <<call, raised, arg_entries, arg_window, ret_groups, arg_text,
              ret_parsed, warnings, ret_value, arg_groups, common_comments,
              log_entries, grouped_commits>>

pathVars == <<arg_path, ret_path>>

scanVars == <<scan_lines, scan_i, scan_entries, scan_warned>>

windowVars == <<json_file, last_groups, last_outdir>>

threadVars == <<thread_pc, cancel_requested, thread_result, signals, dialog_open,
                run_enabled, cancel_enabled, runs, before_run, cancel_in_time,
                returned_run, emitted>>

mainVars == <<argv, main_return, analysis_called>>

vars == <<coreVars, ret_second, pathVars, scanVars, windowVars, threadVars,
          mainVars>>

---------------------------------------------------------------------------
(* Bounds of the model *)

MaxEntries == 3      \* longest entries list handed to group_commits
MaxMinute  == 2      \* timestamps lie in minutes 0..MaxMinute
MaxWindow  == 1      \* largest time_window_minutes tried
MaxLines   == 5      \* most lines after the first section marker of a log text
MaxTokens  == 5      \* most tokens of a path handed to extract_filename
MaxRuns    == 2      \* most analyses started from the main window

(* Program constants *)

SecondsPerMinute  == 60
DefaultTimeWindow == 1     \* analyze_repository(..., time_window=1, ...)

---------------------------------------------------------------------------
(* Input domains *)

\* Two authors that differ only in case: the comparison is exact.
Authors == {"bob", "Bob"}

\* Timestamps in seconds; strptime's formats resolve to one second, so each
\* minute is taken on the minute and one second later.
SecondOffsets == {0, 1}
Times == {m * SecondsPerMinute + s : m \in 0..MaxMinute, s \in SecondOffsets}

\* time_window_minutes: --window is any int (cvs_config.py:69), so zero and
\* a negative value are inputs too.
WindowValues == (-1)..MaxWindow

\* The windows analyze_repository is run with: a window that is not
\* positive, and the default.
AnalyzeWindows == {0, DefaultTimeWindow}

\* A parsed log entry (the dict appended at cvs_analyzer.py:101-108).  'date'
\* is the instant in seconds, 'aware' whether the datetime carries a UTC
\* offset (parsed by a %z format) or is naive.  'file' is a path as a
\* sequence of path tokens, 'comment' the sequence of comment line texts
\* that ' '.join glues (the empty sequence is the empty string).
Entry(f, r, d, tz, a, c) ==
    [file |-> f, revision |-> r, date |-> d, aware |-> tz, author |-> a,
     comment |-> c]

\* The comments of the members of a group handed to export_to_excel.
CommentTexts == {<<>>, <<"fix">>, <<"typo">>}

\* The file record k of an entries list revises: the second record revises
\* another file than the first and the third, which revise one file twice.
FileOf(k) == IF k = 2 THEN <<"b.c">> ELSE <<"a.c">>

\* An entries list handed to group_commits: n records, record k with author
\* at[k][1], time at[k][2] and revision k.  All timestamps are naive, except
\* that the first is timezone-aware when firstAware.
EntryList(n, at, firstAware) ==
    [k \in 1..n |->
        Entry(FileOf(k), k, at[k][2], firstAware /\ k = 1, at[k][1], <<>>)]

\* The entries a run hands on to the backup: n records of one author, record
\* k at time ts[k], all timestamps naive or all timezone-aware.
UniformEntryList(n, ts, aware) ==
    [k \in 1..n |-> Entry(FileOf(k), k, ts[k], aware, "bob", <<"fix">>)]

---------------------------------------------------------------------------
(* Log text *)

\* What run_cvs_log hands on: None, or the text as its sequence of lines.
NoText == [absent |-> TRUE, lines |-> <<>>]
TextOf(lines) == [absent |-> FALSE, lines |-> lines]

\* 'not log_output': None and the empty string are falsy.
Falsy(log_output) == log_output.absent \/ log_output.lines = <<>>

\* The date texts of a metadata line: one per accepted format family and one
\* that no format accepts; secs is the instant the text denotes.
DateSlash == [form |-> "slash",  secs |-> 0]                \* 2024/01/01 00:00:00
DateDashZ == [form |-> "dash_z", secs |-> SecondsPerMinute] \* 2024-01-01 00:01:00 +0000
DateBad   == [form |-> "bad",    secs |-> 0]                \* not-a-date

\* The path of the section marker line "RCS file: /RCS/a.c,v", as tokens.
HeaderPath == <<"/", "RCS", "/", "a.c", ",v">>

\* The lines a log text is made of: a line is its kind, which names what the
\* regular expressions of parse_log_output see in it, and the revision
\* number it holds if it is a revision marker.
LineKinds == {"hdr", "rev", "meta_slash", "meta_dash_z", "meta_bad", "sep", "text"}

\* The line of the given kind at position k of the text; the revision
\* marker at position k reads "revision 1.k".
LineAt(kind, k) == [kind |-> kind, revision |-> IF kind = "rev" THEN k ELSE 0]

\* The date text and the author a metadata line holds.
DateStrOf(line) ==
    CASE line.kind = "meta_slash"  -> DateSlash
      [] line.kind = "meta_dash_z" -> DateDashZ
      [] OTHER                     -> DateBad

AuthorOf(line) == "bob"

\* The path that follows "RCS file:" on a section marker line.
PathOf(line) == HeaderPath

\* The stripped text of a line (of the lines that can lie inside a comment).
StrippedText(line) ==
    CASE line.kind = "meta_slash"  -> "date: 2024/01/01 00:00:00;  author: bob;"
      [] line.kind = "meta_dash_z" -> "date: 2024-01-01 00:01:00 +0000;  author: bob;"
      [] line.kind = "meta_bad"    -> "date: not-a-date;  author: bob;"
      [] OTHER                     -> "fix"

\* A log text: a first section marker followed by n lines of any kind.
LogText(n, kinds) ==
    TextOf(<<LineAt("hdr", 1)>> \o [k \in 1..n |-> LineAt(kinds[k], k + 1)])

\* A text that holds no section marker: "", or one line of other output.
BareTexts == {TextOf(<<>>), TextOf(<<LineAt("text", 1)>>)}

\* The tokens paths handed to extract_filename are made of; a path is the
\* concatenation of its tokens.
PathTokens == {"/", "RCS", "a.c", ",v"}

\* The lines of a section after its first line: any line but a section
\* marker, which re.split has consumed.
SectionKinds == LineKinds \ {"hdr"}

\* A section as the loop over rcs_sections sees it: lines[0] is what followed
\* the marker on its line, then n lines of any kind.
SectionLines(n, kinds) ==
    <<LineAt("hdr", 1)>> \o [k \in 1..n |-> LineAt(kinds[k], k + 1)]

\* An output directory: None, '' or the path cvs-reports/<timestamp> that
\* _prepare_output_dir made for the run.
NoDir == [absent |-> TRUE, path |-> <<>>]
EmptyDir == [absent |-> FALSE, path |-> <<>>]
OutDir(run) == [absent |-> FALSE, path |-> <<"cvs-reports", "/", run>>]

\* An option of the command line that takes a text: not given (None), or
\* given with a text, which may be empty.
NoOpt == [given |-> FALSE, text |-> ""]
Opt(text) == [given |-> TRUE, text |-> text]

\* The texts --start and --end are given: none, a date in the first and in
\* the third format of parse_date, and a text in none of its formats.
DateTexts == {"", "2024-01-01", "01.01.2024", "nope"}
DateOpts == {NoOpt} \cup {Opt(t) : t \in DateTexts}

\* The command line of cvs_config.py: whether --days is given (with a value
\* other than its default), --start, --end, whether --path exists, --window.
Argv(days_given, start, end, path_exists, window) ==
    [days_given |-> days_given, start |-> start, end |-> end,
     path_exists |-> path_exists, window |-> window]

\* No command line: main() has not been run.
NoArgv == Argv(FALSE, NoOpt, NoOpt, FALSE, 0)

\* How analyzer.analyze_repository(...) ends: it returns the Excel file or
\* None, or an exception leaves it.
AnalysisOutcomes == {"excel_file", "None", "TypeError", "KeyboardInterrupt"}

---------------------------------------------------------------------------
(* parse_log_output *)

\* ^RCS file:
IsSectionMarker(line) == line.kind = "hdr"

\* revision_pattern  ^revision (\S+)
MatchesRevision(line) == line.kind = "rev"

\* date_pattern  ^date: ([^;]+);  author: ([^;]+);
MatchesDate(line) == line.kind \in {"meta_slash", "meta_dash_z", "meta_bad"}

\* ^(revision|---)  ends the comment of an entry
EndsComment(line) == line.kind \in {"rev", "sep"}

\* date_formats, in the order they are tried
DateFormats == <<"slash", "dash", "dash_z", "slash_z">>

\* datetime.strptime(date_str, fmt): fails unless the text has the format's
\* shape; a %z format gives a timezone-aware value.
Strptime(date_str, fmt) ==
    [ok    |-> date_str.form = fmt,
     date  |-> date_str.secs,
     aware |-> fmt \in {"dash_z", "slash_z"}]

\* The loop over date_formats from the k-th on: the first success wins,
\* commit_date stays None (ok = FALSE) when every format fails.
RECURSIVE ParseDate(_, _)
ParseDate(date_str, k) ==
    IF k > Len(DateFormats) THEN [ok |-> FALSE, date |-> 0, aware |-> FALSE]
    ELSE IF Strptime(date_str, DateFormats[k]).ok
         THEN Strptime(date_str, DateFormats[k])
         ELSE ParseDate(date_str, k + 1)

\* rcs_path.replace('/RCS/', '/'): leftmost non-overlapping occurrences.
RECURSIVE ReplaceRCS(_)
ReplaceRCS(path) ==
    IF path = <<>> THEN <<>>
    ELSE IF Len(path) >= 3 /\ SubSeq(path, 1, 3) = <<"/", "RCS", "/">>
         THEN <<"/">> \o ReplaceRCS(SubSeq(path, 4, Len(path)))
         ELSE <<path[1]>> \o ReplaceRCS(Tail(path))

extract_filename(rcs_path) ==
    LET clean_path == ReplaceRCS(rcs_path) IN
    IF clean_path # <<>> /\ clean_path[Len(clean_path)] = ",v"
    THEN SubSeq(clean_path, 1, Len(clean_path) - 1)
    ELSE clean_path

\* re.split(r'^RCS file:', log_output)[1:]: the sections from line i on, each
\* from its marker line up to the next marker; what precedes the first
\* marker belongs to no section.
RECURSIVE SectionEnd(_, _)
SectionEnd(lines, j) ==
    IF j > Len(lines) \/ IsSectionMarker(lines[j]) THEN j
    ELSE SectionEnd(lines, j + 1)

RECURSIVE SplitSections(_, _)
SplitSections(lines, i) ==
    IF i > Len(lines) THEN <<>>
    ELSE IF IsSectionMarker(lines[i])
         THEN <<SubSeq(lines, i, SectionEnd(lines, i + 1) - 1)>>
                  \o SplitSections(lines, SectionEnd(lines, i + 1))
         ELSE SplitSections(lines, i + 1)

\* The inner while loop: the first index from j on that is past the end or
\* holds a line ending the comment.
RECURSIVE CommentEnd(_, _)
CommentEnd(lines, j) ==
    IF j > Len(lines) \/ EndsComment(lines[j]) THEN j
    ELSE CommentEnd(lines, j + 1)

\* comment_lines gathered over lines j..e-1 (none of them blank or a row of
\* '='), which ' '.join glues.
CommentLines(lines, j, e) == [k \in 1..(e - j) |-> StrippedText(lines[j + k - 1])]

\* A faulty variant of ScanStep: on a date no format accepts, 'continue' is
\* taken with i put back on the revision marker of the entry.
ScanStepContinueInPlace(lines, i, current_file) ==
    IF MatchesRevision(lines[i])
    THEN IF i + 1 <= Len(lines)
         THEN IF MatchesDate(lines[i + 1])
              THEN LET e == CommentEnd(lines, i + 2)
                       commit_date == ParseDate(DateStrOf(lines[i + 1]), 1)
                   IN IF ~commit_date.ok
                      THEN [next |-> i, entries |-> <<>>, warned |-> 1]
                      ELSE [next |-> e + 1,
                            entries |-> <<Entry(current_file, lines[i].revision,
                                                commit_date.date, commit_date.aware,
                                                AuthorOf(lines[i + 1]),
                                                CommentLines(lines, i + 2, e))>>,
                            warned |-> 0]
              ELSE [next |-> i + 2, entries |-> <<>>, warned |-> 0]
         ELSE [next |-> i + 2, entries |-> <<>>, warned |-> 0]
    ELSE [next |-> i + 1, entries |-> <<>>, warned |-> 0]

\* A faulty variant of ScanStep: an entry whose date no format accepts is
\* appended with the empty commit_date instead of being skipped.
ScanStepNullDate(lines, i, current_file) ==
    IF MatchesRevision(lines[i])
    THEN IF i + 1 <= Len(lines)
         THEN IF MatchesDate(lines[i + 1])
              THEN LET e == CommentEnd(lines, i + 2)
                       commit_date == ParseDate(DateStrOf(lines[i + 1]), 1)
                   IN [next |-> e + 1,
                       entries |-> <<Entry(current_file, lines[i].revision,
                                           commit_date.date, commit_date.aware,
                                           AuthorOf(lines[i + 1]),
                                           CommentLines(lines, i + 2, e))>>,
                       warned |-> 0]
              ELSE [next |-> i + 2, entries |-> <<>>, warned |-> 0]
         ELSE [next |-> i + 2, entries |-> <<>>, warned |-> 0]
    ELSE [next |-> i + 1, entries |-> <<>>, warned |-> 0]

\* One iteration of the outer while loop at index i (1-based): the index the
\* next iteration starts at, the entries appended and the warnings printed.
ScanStep(lines, i, current_file) ==
    IF MatchesRevision(lines[i])
    THEN IF i + 1 <= Len(lines)
         THEN IF MatchesDate(lines[i + 1])
              THEN LET e == CommentEnd(lines, i + 2)
                       commit_date == ParseDate(DateStrOf(lines[i + 1]), 1)
                   IN IF ~commit_date.ok
                      THEN \* warning, 'continue' without the final i += 1
                           [next |-> e, entries |-> <<>>, warned |-> 1]
                      ELSE [next |-> e + 1,
                            entries |-> <<Entry(current_file, lines[i].revision,
                                                commit_date.date, commit_date.aware,
                                                AuthorOf(lines[i + 1]),
                                                CommentLines(lines, i + 2, e))>>,
                            warned |-> 0]
              ELSE [next |-> i + 2, entries |-> <<>>, warned |-> 0]
         ELSE [next |-> i + 2, entries |-> <<>>, warned |-> 0]
    ELSE [next |-> i + 1, entries |-> <<>>, warned |-> 0]

\* A faulty variant of ScanLines: new entries are put before the earlier.
RECURSIVE ScanLinesPrepend(_, _, _, _, _)
ScanLinesPrepend(lines, i, current_file, entries, warned) ==
    IF i > Len(lines) THEN [entries |-> entries, warned |-> warned]
    ELSE LET step == ScanStep(lines, i, current_file) IN
         ScanLinesPrepend(lines, step.next, current_file, step.entries \o entries,
                          warned + step.warned)

\* The outer while loop over one section from index i on.
RECURSIVE ScanLines(_, _, _, _, _)
ScanLines(lines, i, current_file, entries, warned) ==
    IF i > Len(lines) THEN [entries |-> entries, warned |-> warned]
    ELSE LET step == ScanStep(lines, i, current_file) IN
         ScanLines(lines, step.next, current_file, entries \o step.entries,
                   warned + step.warned)

\* The for loop over the sections from the k-th on.  What follows the marker
\* on its line is lines[0] of the section: it names the file, and the scan
\* starts at it.
RECURSIVE ParseSections(_, _, _, _)
ParseSections(sections, k, entries, warned) ==
    IF k > Len(sections) THEN [entries |-> entries, warned |-> warned]
    ELSE LET scan == ScanLines(sections[k], 1,
                               extract_filename(PathOf(sections[k][1])),
                               entries, warned)
         IN ParseSections(sections, k + 1, scan.entries, scan.warned)

\* parse_log_output(log_output): the list it returns and the number of
\* warnings it prints.
parse_log_output(log_output) ==
    IF Falsy(log_output) THEN [entries |-> <<>>, warned |-> 0]
    ELSE ParseSections(SplitSections(log_output.lines, 1), 1, <<>>, 0)

---------------------------------------------------------------------------
(* The representative comment of a group (export_to_excel, export_to_html) *)

\* comments = [e['comment'] for e in group['entries'] if e['comment']]
RECURSIVE NonEmptyComments(_)
NonEmptyComments(entries) ==
    IF entries = <<>> THEN <<>>
    ELSE LET rest == NonEmptyComments(SubSeq(entries, 1, Len(entries) - 1))
             c == entries[Len(entries)].comment
         IN IF c # <<>> THEN Append(rest, c) ELSE rest

\* comments.count(c)
CountOf(comments, c) == Cardinality({i \in 1..Len(comments) : comments[i] = c})

\* The orders in which a set of strings can be iterated: the order follows
\* the strings' hashes, which are salted anew in every interpreter run.
IterationOrders(S) ==
    {o \in [1..Cardinality(S) -> S] : {o[i] : i \in 1..Cardinality(S)} = S}

\* max(order, key=comments.count): the first element, in iteration order,
\* whose count no other element exceeds.
MaxByCount(order, comments) ==
    order[CHOOSE i \in 1..Len(order) :
            /\ \A j \in 1..Len(order) :
                  CountOf(comments, order[j]) <= CountOf(comments, order[i])
            /\ \A j \in 1..(i - 1) :
                  CountOf(comments, order[j]) < CountOf(comments, order[i])]

\* The values max(set(comments), key=comments.count) if comments else ""
\* can take for the members of one group.
CommonCommentOutcomes(entries) ==
    LET comments == NonEmptyComments(entries) IN
    IF comments = <<>> THEN {<<>>}
    ELSE {MaxByCount(o, comments) :
            o \in IterationOrders({comments[i] : i \in 1..Len(comments)})}

\* The Common_Comment columns export_to_excel can write for groups.
CommonCommentColumns(groups) ==
    {cc \in [1..Len(groups) ->
                UNION {CommonCommentOutcomes(groups[g].entries) : g \in 1..Len(groups)}] :
        \A g \in 1..Len(groups) : cc[g] \in CommonCommentOutcomes(groups[g].entries)}

---------------------------------------------------------------------------
(* group_commits *)

Abs(x) == IF x < 0 THEN 0 - x ELSE x

\* datetime comparison raises TypeError between a naive and an aware value;
\* sorting a list of two or more keys compares a mixed pair iff one exists.
MixedAwareness(entries) ==
    \E i, j \in 1..Len(entries) : entries[i].aware # entries[j].aware

\* A faulty variant of InsertByDate: e goes before the elements of equal
\* date, as an unstable sort may place it.
RECURSIVE InsertByDateUnstable(_, _)
InsertByDateUnstable(s, e) ==
    IF s = <<>> THEN <<e>>
    ELSE IF s[Len(s)].date < e.date THEN Append(s, e)
    ELSE Append(InsertByDateUnstable(SubSeq(s, 1, Len(s) - 1), e), s[Len(s)])

\* Insertion of e into the sorted prefix s, after every element whose date
\* is not later: Python's sorted() is stable.
RECURSIVE InsertByDate(_, _)
InsertByDate(s, e) ==
    IF s = <<>> THEN <<e>>
    ELSE IF s[Len(s)].date <= e.date THEN Append(s, e)
    ELSE Append(InsertByDate(SubSeq(s, 1, Len(s) - 1), e), s[Len(s)])

\* A faulty variant of SortedEntries: the entries are left in input order.
SortedEntriesUnsorted(entries) == entries

\* sorted(entries, key=lambda x: x['date'])
RECURSIVE SortedEntries(_)
SortedEntries(entries) ==
    IF entries = <<>> THEN <<>>
    ELSE InsertByDate(SortedEntries(SubSeq(entries, 1, Len(entries) - 1)),
                      entries[Len(entries)])

MinDate(g) ==
    CHOOSE d \in {g[i].date : i \in 1..Len(g)} : \A j \in 1..Len(g) : d <= g[j].date

MaxDate(g) ==
    CHOOSE d \in {g[i].date : i \in 1..Len(g)} : \A j \in 1..Len(g) : d >= g[j].date

\* A faulty variant of FinalizeGroup: file_count counts the distinct files.
FinalizeGroupDistinctFiles(group_id, current_group) ==
    [group_id   |-> group_id,
     entries    |-> current_group,
     start_time |-> MinDate(current_group),
     end_time   |-> MaxDate(current_group),
     author     |-> current_group[1].author,
     file_count |-> Cardinality({current_group[i].file : i \in 1..Len(current_group)}),
     files      |-> [i \in 1..Len(current_group) |-> current_group[i].file]]

\* The dict appended to groups when the buffer is finalized.
FinalizeGroup(group_id, current_group) ==
    [group_id   |-> group_id,
     entries    |-> current_group,
     start_time |-> MinDate(current_group),
     end_time   |-> MaxDate(current_group),
     author     |-> current_group[1].author,
     file_count |-> Len(current_group),
     files      |-> [i \in 1..Len(current_group) |-> current_group[i].file]]

\* A faulty variant of WithinWindow: the difference is taken in hours.
WithinWindowHours(entry, last_entry, time_window_minutes) ==
    Abs(entry.date - last_entry.date)
        <= time_window_minutes * SecondsPerMinute * SecondsPerMinute

\* A faulty variant of WithinWindow: the boundary is exclusive.
WithinWindowStrict(entry, last_entry, time_window_minutes) ==
    Abs(entry.date - last_entry.date) < time_window_minutes * SecondsPerMinute

\* time_diff = abs((entry.date - last.date).total_seconds() / 60), compared
\* with time_window_minutes; both sides are multiplied by 60 here.
WithinWindow(entry, last_entry, time_window_minutes) ==
    Abs(entry.date - last_entry.date) <= time_window_minutes * SecondsPerMinute

\* A faulty variant of JoinsGroup: the author is not compared.
JoinsGroupAnyAuthor(entry, last_entry, time_window_minutes) ==
    WithinWindow(entry, last_entry, time_window_minutes)

\* A faulty variant of JoinsGroup: no entry is ever appended.
JoinsGroupNever(entry, last_entry, time_window_minutes) == FALSE

\* The condition under which entry is appended to the current group.
JoinsGroup(entry, last_entry, time_window_minutes) ==
    /\ entry.author = last_entry.author
    /\ WithinWindow(entry, last_entry, time_window_minutes)

\* A faulty variant of GroupLoop: the buffer left after the loop is dropped.
RECURSIVE GroupLoopNoFlush(_, _, _, _, _, _)
GroupLoopNoFlush(sorted_entries, k, time_window_minutes, groups, current_group, group_id) ==
    IF k > Len(sorted_entries)
    THEN groups
    ELSE LET entry == sorted_entries[k] IN
         IF current_group = <<>>
         THEN GroupLoopNoFlush(sorted_entries, k + 1, time_window_minutes, groups,
                               <<entry>>, group_id)
         ELSE IF JoinsGroup(entry, current_group[Len(current_group)],
                            time_window_minutes)
         THEN GroupLoopNoFlush(sorted_entries, k + 1, time_window_minutes, groups,
                               Append(current_group, entry), group_id)
         ELSE GroupLoopNoFlush(sorted_entries, k + 1, time_window_minutes,
                               Append(groups, FinalizeGroup(group_id, current_group)),
                               <<entry>>, group_id + 1)

\* A faulty variant of GroupLoop: the buffer left after the loop is made a
\* group even when it is empty.
RECURSIVE GroupLoopUnguardedFlush(_, _, _, _, _, _)
GroupLoopUnguardedFlush(sorted_entries, k, time_window_minutes, groups, current_group, group_id) ==
    IF k > Len(sorted_entries)
    THEN Append(groups, [group_id |-> group_id, entries |-> current_group,
                         file_count |-> Len(current_group)])
    ELSE LET entry == sorted_entries[k] IN
         IF current_group = <<>>
         THEN GroupLoopUnguardedFlush(sorted_entries, k + 1, time_window_minutes,
                                      groups, <<entry>>, group_id)
         ELSE IF JoinsGroup(entry, current_group[Len(current_group)],
                            time_window_minutes)
         THEN GroupLoopUnguardedFlush(sorted_entries, k + 1, time_window_minutes,
                                      groups, Append(current_group, entry), group_id)
         ELSE GroupLoopUnguardedFlush(sorted_entries, k + 1, time_window_minutes,
                                      Append(groups, FinalizeGroup(group_id, current_group)),
                                      <<entry>>, group_id + 1)

\* A faulty variant of GroupLoop: the entry is compared with the first
\* record of the buffer, which makes the window a fixed one.
RECURSIVE GroupLoopFixedWindow(_, _, _, _, _, _)
GroupLoopFixedWindow(sorted_entries, k, time_window_minutes, groups, current_group, group_id) ==
    IF k > Len(sorted_entries)
    THEN IF current_group # <<>>
         THEN Append(groups, FinalizeGroup(group_id, current_group))
         ELSE groups
    ELSE LET entry == sorted_entries[k] IN
         IF current_group = <<>>
         THEN GroupLoopFixedWindow(sorted_entries, k + 1, time_window_minutes, groups,
                                   <<entry>>, group_id)
         ELSE IF JoinsGroup(entry, current_group[1], time_window_minutes)
         THEN GroupLoopFixedWindow(sorted_entries, k + 1, time_window_minutes, groups,
                                   Append(current_group, entry), group_id)
         ELSE GroupLoopFixedWindow(sorted_entries, k + 1, time_window_minutes,
                                   Append(groups, FinalizeGroup(group_id, current_group)),
                                   <<entry>>, group_id + 1)

\* The for loop over sorted_entries from position k on, and the final flush.
RECURSIVE GroupLoop(_, _, _, _, _, _)
GroupLoop(sorted_entries, k, time_window_minutes, groups, current_group, group_id) ==
    IF k > Len(sorted_entries)
    THEN IF current_group # <<>>
         THEN Append(groups, FinalizeGroup(group_id, current_group))
         ELSE groups
    ELSE LET entry == sorted_entries[k] IN
         IF current_group = <<>>
         THEN GroupLoop(sorted_entries, k + 1, time_window_minutes, groups,
                        <<entry>>, group_id)
         ELSE IF JoinsGroup(entry, current_group[Len(current_group)],
                            time_window_minutes)
         THEN GroupLoop(sorted_entries, k + 1, time_window_minutes, groups,
                        Append(current_group, entry), group_id)
         ELSE GroupLoop(sorted_entries, k + 1, time_window_minutes,
                        Append(groups, FinalizeGroup(group_id, current_group)),
                        <<entry>>, group_id + 1)

group_commits(entries, time_window_minutes) ==
    GroupLoop(SortedEntries(entries), 1, time_window_minutes, <<>>, <<>>, 1)

---------------------------------------------------------------------------
(* save_json_backup and the reload of the backup by on_refresh_tree *)

\* A faulty variant of IsoFormat: only the date is written.
IsoFormatDateOnly(date, aware) == [clock |-> 0, offset |-> ""]

\* datetime.isoformat(): the text 2024-01-01T<time of day>, followed by the
\* UTC offset '+00:00' when the value is timezone-aware.
IsoFormat(date, aware) ==
    [clock |-> date, offset |-> IF aware THEN "+00:00" ELSE ""]

\* datetime.fromisoformat(text): aware iff the text ends with an offset.
FromIsoFormat(text) == [date |-> text.clock, aware |-> text.offset # ""]

\* json_entry: the entry with its date as text.
JsonEntry(entry) ==
    [file |-> entry.file, revision |-> entry.revision,
     date |-> IsoFormat(entry.date, entry.aware),
     author |-> entry.author, comment |-> entry.comment]

\* json_group: the group with its times and its entries' dates as text; the
\* times of a group are those of members, aware as the members are.
JsonGroup(group) ==
    [group EXCEPT
        !.start_time = IsoFormat(group.start_time, group.entries[1].aware),
        !.end_time = IsoFormat(group.end_time, group.entries[1].aware),
        !.entries = [m \in 1..Len(group.entries) |-> JsonEntry(group.entries[m])]]

\* save_json_backup(groups, filename): the content written; json.dump and
\* json.load keep lists, dicts, strings and integers as they are.
save_json_backup(groups) == [g \in 1..Len(groups) |-> JsonGroup(groups[g])]

\* ne: the entry read back, with its date parsed.
RefreshedEntry(e) ==
    Entry(e.file, e.revision, FromIsoFormat(e.date).date,
          FromIsoFormat(e.date).aware, e.author, e.comment)

\* ng: the group read back, with its times and its entries' dates parsed.
RefreshedGroup(g) ==
    [g EXCEPT
        !.start_time = FromIsoFormat(g.start_time).date,
        !.end_time = FromIsoFormat(g.end_time).date,
        !.entries = [m \in 1..Len(g.entries) |-> RefreshedEntry(g.entries[m])]]

\* The groups on_refresh_tree builds from the loaded data.
RefreshedGroups(data) == [g \in 1..Len(data) |-> RefreshedGroup(data[g])]

\* 'not self.last_outdir'
NoOutdir(outdir) == outdir.absent \/ outdir.path = <<>>

---------------------------------------------------------------------------
(* The state machine *)

Init ==
    /\ call = "none"
    /\ raised = "none"
    /\ arg_entries = <<>>
    /\ arg_window = 0
    /\ ret_groups = <<>>
    /\ arg_text = NoText
    /\ ret_parsed = [entries |-> <<>>]
    /\ warnings = 0
    /\ ret_value = "-"
    /\ arg_groups = <<>>
    /\ common_comments = <<>>
    /\ log_entries = <<>>
    /\ grouped_commits = <<>>
    /\ ret_second = <<>>
    /\ arg_path = <<>>
    /\ ret_path = <<>>
    /\ scan_lines = <<>>
    /\ scan_i = 1
    /\ scan_entries = <<>>
    /\ scan_warned = 0
    /\ json_file = <<>>
    /\ last_groups = <<>>
    /\ last_outdir = NoDir
    /\ thread_pc = "none"
    /\ cancel_requested = FALSE
    /\ thread_result = [groups |-> <<>>, outdir |-> EmptyDir]
    /\ signals = <<>>
    /\ dialog_open = FALSE
    /\ run_enabled = TRUE
    /\ cancel_enabled = FALSE
    /\ runs = 0
    /\ before_run = [groups |-> <<>>, outdir |-> NoDir]
    /\ cancel_in_time = FALSE
    /\ returned_run = FALSE
    /\ emitted = "none"
    /\ argv = NoArgv
    /\ main_return = "none"
    /\ analysis_called = FALSE

\* A direct call parser.group_commits(entries, w).
GroupCommits(entries, w) ==
    /\ call = "none"
    /\ call' = "group_commits"
    /\ arg_entries' = entries
    /\ arg_window' = w
    /\ IF MixedAwareness(entries)
       THEN /\ raised' = "TypeError"
            /\ ret_groups' = <<>>
       ELSE /\ raised' = "none"
            /\ ret_groups' = group_commits(entries, w)
    /\ UNCHANGED <<arg_text, ret_parsed, warnings, ret_value, arg_groups,
                   common_comments, log_entries, grouped_commits>>
    /\ UNCHANGED <<ret_second, mainVars, pathVars, scanVars, windowVars, threadVars>>

\* A direct call parser.parse_log_output(log_output).  The method returns
\* the entries list and nothing else.
ParseLogOutput(log_output) ==
    /\ call = "none"
    /\ call' = "parse_log_output"
    /\ arg_text' = log_output
    /\ raised' = "none"
    /\ LET parsed == parse_log_output(log_output) IN
          /\ ret_parsed' = [entries |-> parsed.entries]
          /\ warnings' = parsed.warned
    /\ UNCHANGED <<arg_entries, arg_window, ret_groups, ret_value, arg_groups,
                   common_comments, log_entries, grouped_commits>>
    /\ UNCHANGED <<ret_second, mainVars, pathVars, scanVars, windowVars, threadVars>>

\* A second call parser.parse_log_output(log_output) on the same object with
\* the text of the first call.
ParseLogOutputAgain ==
    /\ call = "parse_log_output"
    /\ call' = "parse_log_output_twice"
    /\ LET parsed == parse_log_output(arg_text) IN
          /\ ret_second' = parsed.entries
          /\ warnings' = warnings + parsed.warned
    /\ UNCHANGED <<raised, arg_entries, arg_window, ret_groups, arg_text,
                   ret_parsed, ret_value, arg_groups, common_comments,
                   log_entries, grouped_commits>>
    /\ UNCHANGED <<mainVars, pathVars, scanVars, windowVars, threadVars>>

\* A direct call parser.export_to_excel(groups, filename): the Common_Comment
\* column of the Commit_Groups sheet.
ExportToExcel(groups) ==
    /\ call = "none"
    /\ call' = "export_to_excel"
    /\ arg_groups' = groups
    /\ raised' = "none"
    /\ common_comments' \in CommonCommentColumns(groups)
    /\ UNCHANGED <<arg_entries, arg_window, ret_groups, arg_text, ret_parsed,
                   warnings, ret_value, log_entries, grouped_commits>>
    /\ UNCHANGED <<ret_second, mainVars, pathVars, scanVars, windowVars, threadVars>>

\* parser.analyze_repository(time_window=w), run_cvs_log having returned
\* log_output.
AnalyzeRepository(log_output, w) ==
    /\ call = "none"
    /\ call' = "analyze_repository"
    /\ arg_text' = log_output
    /\ arg_window' = w
    /\ UNCHANGED <<arg_entries, ret_groups, ret_parsed, arg_groups>>
    /\ UNCHANGED <<ret_second, mainVars, pathVars, scanVars, windowVars, threadVars>>
    /\ IF Falsy(log_output)
       THEN \* "Failed to get CVS logs. Exiting."
            /\ ret_value' = "None"
            /\ raised' = "none"
            /\ UNCHANGED <<warnings, common_comments, log_entries, grouped_commits>>
       ELSE LET parsed == parse_log_output(log_output) IN
            /\ log_entries' = parsed.entries
            /\ warnings' = parsed.warned
            /\ IF parsed.entries = <<>>
               THEN \* "No log entries found. Exiting."
                    /\ ret_value' = "None"
                    /\ raised' = "none"
                    /\ UNCHANGED <<common_comments, grouped_commits>>
               ELSE IF MixedAwareness(parsed.entries)
               THEN \* sorted() raises inside group_commits; nothing catches it
                    /\ ret_value' = "-"
                    /\ raised' = "TypeError"
                    /\ UNCHANGED <<common_comments, grouped_commits>>
               ELSE LET groups == group_commits(parsed.entries, w) IN
                    /\ grouped_commits' = groups
                    /\ common_comments' \in CommonCommentColumns(groups)
                    /\ ret_value' = "excel_file"
                    /\ raised' = "none"

\* The calls made on the freshly constructed object.

\* group_commits on records of every author, time and order.
CallGroupCommits ==
    /\ call = "none"
    /\ \E n \in 0..MaxEntries :
          \E at \in [1..n -> Authors \X Times], firstAware \in BOOLEAN,
             w \in WindowValues :
              GroupCommits(EntryList(n, at, firstAware), w)

\* export_to_excel on no group, and on one group of members with every
\* choice of comments.
CallExportToExcel ==
    /\ call = "none"
    /\ \/ ExportToExcel(<<>>)
       \/ \E n \in 1..MaxEntries :
              \E cs \in [1..n -> CommentTexts] :
                  ExportToExcel(<<FinalizeGroup(1,
                      [k \in 1..n |-> Entry(<<"a.c">>, k, 0, FALSE, "bob", cs[k])])>>)

Next == CallGroupCommits \/ CallExportToExcel

Spec == Init /\ [][Next]_vars

\* parse_log_output on None, on texts without a section marker and on texts
\* of every shape.
CallParseLogOutput ==
    /\ call = "none"
    /\ \/ \E log_output \in {NoText} \cup BareTexts : ParseLogOutput(log_output)
       \/ \E n \in 0..MaxLines :
              \E kinds \in [1..n -> LineKinds] : ParseLogOutput(LogText(n, kinds))

\* parse_log_output once more on the text just parsed.
CallParseLogOutputAgain == ParseLogOutputAgain

NextParse == CallParseLogOutput \/ CallParseLogOutputAgain

SpecParse == Init /\ [][NextParse]_vars

\* parse_log_output on None and on texts without a section marker.
CallParseNoSections ==
    /\ call = "none"
    /\ \E log_output \in {NoText} \cup BareTexts : ParseLogOutput(log_output)

\* analyze_repository on texts of every shape.
CallAnalyzeRepository ==
    /\ call = "none"
    /\ \/ \E log_output \in {NoText} \cup BareTexts, w \in AnalyzeWindows :
              AnalyzeRepository(log_output, w)
       \/ \E n \in 0..MaxLines :
              \E kinds \in [1..n -> LineKinds], w \in AnalyzeWindows :
                  AnalyzeRepository(LogText(n, kinds), w)

\* group_commits on the empty list parse_log_output returns for such texts.
CallGroupCommitsEmpty ==
    /\ call = "none"
    /\ \E w \in WindowValues : GroupCommits(<<>>, w)

NextAnalyze == CallParseNoSections \/ CallAnalyzeRepository \/ CallGroupCommitsEmpty

SpecAnalyze == Init /\ [][NextAnalyze]_vars

\* A direct call parser.extract_filename(rcs_path).
ExtractFilename(rcs_path) ==
    /\ call = "none"
    /\ call' = "extract_filename"
    /\ arg_path' = rcs_path
    /\ ret_path' = extract_filename(rcs_path)
    /\ UNCHANGED <<raised, arg_entries, arg_window, ret_groups, arg_text,
                   ret_parsed, warnings, ret_value, arg_groups, common_comments,
                   log_entries, grouped_commits>>
    /\ UNCHANGED <<ret_second, mainVars, scanVars, windowVars, threadVars>>

\* extract_filename on paths of every shape.
CallExtractFilename ==
    /\ call = "none"
    /\ \E n \in 0..MaxTokens :
          \E rcs_path \in [1..n -> PathTokens] : ExtractFilename(rcs_path)

NextFilename == CallExtractFilename

SpecFilename == Init /\ [][NextFilename]_vars

\* The line scan of one section, iteration by iteration.  ScanBegin is the
\* loop over rcs_sections reaching a section: lines, current_file and i = 0
\* are set (the index is 1-based here).
ScanBegin(lines) ==
    /\ call = "none"
    /\ call' = "scan"
    /\ scan_lines' = lines
    /\ scan_i' = 1
    /\ scan_entries' = <<>>
    /\ scan_warned' = 0
    /\ UNCHANGED <<raised, arg_entries, arg_window, ret_groups, arg_text,
                   ret_parsed, warnings, ret_value, arg_groups, common_comments,
                   log_entries, grouped_commits>>
    /\ UNCHANGED <<ret_second, mainVars, pathVars, windowVars, threadVars>>

\* One iteration of 'while i < len(lines)'.
ScanIteration ==
    /\ call = "scan"
    /\ scan_i <= Len(scan_lines)
    /\ LET step == ScanStep(scan_lines, scan_i,
                            extract_filename(PathOf(scan_lines[1])))
       IN /\ scan_i' = step.next
          /\ scan_entries' = scan_entries \o step.entries
          /\ scan_warned' = scan_warned + step.warned
    /\ UNCHANGED <<coreVars, scan_lines>>
    /\ UNCHANGED <<ret_second, mainVars, pathVars, windowVars, threadVars>>

\* The scan of sections of every shape.
CallScanBegin ==
    /\ call = "none"
    /\ \E n \in 0..MaxLines :
          \E kinds \in [1..n -> SectionKinds] : ScanBegin(SectionLines(n, kinds))

NextScan == CallScanBegin \/ ScanIteration

SpecScan == Init /\ [][NextScan]_vars

\* A direct call parser.save_json_backup(groups, filename).
SaveJsonBackup(groups) ==
    /\ call = "none"
    /\ call' = "save_json_backup"
    /\ arg_groups' = groups
    /\ json_file' = save_json_backup(groups)
    /\ UNCHANGED <<raised, arg_entries, arg_window, ret_groups, arg_text,
                   ret_parsed, warnings, ret_value, common_comments,
                   log_entries, grouped_commits>>
    /\ UNCHANGED <<ret_second, mainVars, pathVars, scanVars, last_groups, last_outdir,
                   threadVars>>

\* The slot MainWindow.on_analysis_finished(groups, outdir).
OnAnalysisFinished(groups, outdir) ==
    /\ last_groups' = groups
    /\ last_outdir' = IF NoOutdir(outdir) THEN EmptyDir ELSE outdir
    /\ cancel_enabled' = FALSE
    /\ run_enabled' = TRUE

\* The slot MainWindow.on_refresh_tree(), the backup of last_outdir being
\* json_file.
OnRefreshTree ==
    /\ call \in {"save_json_backup", "on_analysis_finished"}
    /\ call' = "on_refresh_tree"
    /\ IF NoOutdir(last_outdir)
       THEN \* "Run analysis to generate a report first."
            UNCHANGED last_groups
       ELSE last_groups' = RefreshedGroups(json_file)
    /\ UNCHANGED <<raised, arg_entries, arg_window, ret_groups, arg_text,
                   ret_parsed, warnings, ret_value, arg_groups, common_comments,
                   log_entries, grouped_commits>>
    /\ UNCHANGED <<ret_second, mainVars, pathVars, scanVars, json_file, last_outdir,
                   threadVars>>

\* save_json_backup on the groups of entries lists of every shape.
CallSaveJsonBackup ==
    /\ call = "none"
    /\ \E n \in 0..MaxEntries :
          \E ts \in [1..n -> Times], aware \in BOOLEAN :
              SaveJsonBackup(group_commits(UniformEntryList(n, ts, aware),
                                           DefaultTimeWindow))

\* The run that wrote the backup ends: its groups and its output directory
\* reach the main window.
FinishedWithBackup ==
    /\ call = "save_json_backup"
    /\ call' = "on_analysis_finished"
    /\ OnAnalysisFinished(arg_groups, OutDir(1))
    /\ UNCHANGED <<raised, arg_entries, arg_window, ret_groups, arg_text,
                   ret_parsed, warnings, ret_value, arg_groups, common_comments,
                   log_entries, grouped_commits>>
    /\ UNCHANGED <<ret_second, mainVars, pathVars, scanVars, json_file>>
    /\ UNCHANGED <<thread_pc, cancel_requested, thread_result, signals,
                   dialog_open, runs, before_run, cancel_in_time, returned_run,
                   emitted>>

NextBackup == CallSaveJsonBackup \/ FinishedWithBackup \/ OnRefreshTree

SpecBackup == Init /\ [][NextBackup]_vars

\* The main window and its AnalyzerThread.  The import of cvs_analyzer has
\* succeeded (run_btn is disabled for good otherwise); log_signal and
\* started_signal only append to the log console and are left out.

\* What the analyzer of run number run can hold when analyze_repository has
\* returned: no group and no output directory (it returned None early), or
\* the groups of the run and the directory made for it.
AnalysisResults(run) ==
    {[groups |-> <<>>, outdir |-> EmptyDir],
     [groups |-> <<FinalizeGroup(1, <<Entry(<<"a.c">>, run, 0, FALSE, "bob", <<>>)>>)>>,
      outdir |-> OutDir(run)]}

\* self.<signal>.emit(...) in the worker thread: the connection is queued,
\* the slot runs later in the main thread.
Emit(sig, groups, outdir) ==
    /\ signals' = Append(signals, [sig |-> sig, groups |-> groups, outdir |-> outdir])
    /\ emitted' = sig

\* thread.isRunning()
IsRunning == thread_pc \notin {"none", "done"}

\* MainWindow.on_run with a valid path: a new thread is made and started.
OnRun ==
    /\ run_enabled
    /\ ~dialog_open
    /\ runs < MaxRuns
    /\ runs' = runs + 1
    /\ cancel_enabled' = TRUE
    /\ run_enabled' = FALSE
    /\ thread_pc' = "start"
    /\ cancel_requested' = FALSE
    /\ thread_result' = [groups |-> <<>>, outdir |-> EmptyDir]
    /\ before_run' = [groups |-> last_groups, outdir |-> last_outdir]
    /\ cancel_in_time' = FALSE
    /\ returned_run' = FALSE
    /\ emitted' = "none"
    /\ UNCHANGED <<signals, dialog_open>>
    /\ UNCHANGED <<coreVars, ret_second, mainVars, pathVars, scanVars, windowVars>>

\* run() up to the cancel test before the analysis.
ThreadStart ==
    /\ thread_pc = "start"
    /\ thread_pc' = "pre_check"
    /\ UNCHANGED <<cancel_requested, thread_result, signals, dialog_open,
                   run_enabled, cancel_enabled, runs, before_run, cancel_in_time,
                   returned_run, emitted>>
    /\ UNCHANGED <<coreVars, ret_second, mainVars, pathVars, scanVars, windowVars>>

\* A faulty variant of ThreadPreCheck: after canceled_signal the thread goes
\* on to the analysis instead of returning.
ThreadPreCheckNoReturn ==
    /\ thread_pc = "pre_check"
    /\ IF cancel_requested
       THEN Emit("canceled", <<>>, EmptyDir)
       ELSE UNCHANGED <<signals, emitted>>
    /\ thread_pc' = "analyzing"
    /\ UNCHANGED <<cancel_requested, thread_result, dialog_open, run_enabled,
                   cancel_enabled, runs, before_run, cancel_in_time, returned_run>>
    /\ UNCHANGED <<coreVars, ret_second, mainVars, pathVars, scanVars, windowVars>>

\* 'if self._cancel_requested' before analyze_repository is called.
ThreadPreCheck ==
    /\ thread_pc = "pre_check"
    /\ IF cancel_requested
       THEN /\ Emit("canceled", <<>>, EmptyDir)
            /\ thread_pc' = "done"
       ELSE /\ thread_pc' = "analyzing"
            /\ UNCHANGED <<signals, emitted>>
    /\ UNCHANGED <<cancel_requested, thread_result, dialog_open, run_enabled,
                   cancel_enabled, runs, before_run, cancel_in_time, returned_run>>
    /\ UNCHANGED <<coreVars, ret_second, mainVars, pathVars, scanVars, windowVars>>

\* analyzer.analyze_repository(...) raises, which the except clause turns into
\* error_signal, or returns.
ThreadAnalyze ==
    /\ thread_pc = "analyzing"
    /\ returned_run' = TRUE
    /\ \/ /\ Emit("error", <<>>, EmptyDir)
          /\ thread_pc' = "done"
          /\ UNCHANGED thread_result
       \/ /\ thread_result' \in AnalysisResults(runs)
          /\ thread_pc' = "post_check"
          /\ UNCHANGED <<signals, emitted>>
    /\ UNCHANGED <<cancel_requested, dialog_open, run_enabled, cancel_enabled,
                   runs, before_run, cancel_in_time>>
    /\ UNCHANGED <<coreVars, ret_second, mainVars, pathVars, scanVars, windowVars>>

\* A faulty variant of ThreadPostCheck: the result is emitted without a look
\* at _cancel_requested.
ThreadPostCheckUnchecked ==
    /\ thread_pc = "post_check"
    /\ Emit("finished", thread_result.groups, thread_result.outdir)
    /\ thread_pc' = "done"
    /\ UNCHANGED <<cancel_requested, thread_result, dialog_open, run_enabled,
                   cancel_enabled, runs, before_run, cancel_in_time, returned_run>>
    /\ UNCHANGED <<coreVars, ret_second, mainVars, pathVars, scanVars, windowVars>>

\* 'if self._cancel_requested' after analyze_repository has returned, and
\* the emission of the result.
ThreadPostCheck ==
    /\ thread_pc = "post_check"
    /\ IF cancel_requested
       THEN Emit("canceled", <<>>, EmptyDir)
       ELSE Emit("finished", thread_result.groups, thread_result.outdir)
    /\ thread_pc' = "done"
    /\ UNCHANGED <<cancel_requested, thread_result, dialog_open, run_enabled,
                   cancel_enabled, runs, before_run, cancel_in_time, returned_run>>
    /\ UNCHANGED <<coreVars, ret_second, mainVars, pathVars, scanVars, windowVars>>

\* MainWindow.on_cancel up to its question: asked while the thread runs.
OnCancel ==
    /\ cancel_enabled
    /\ ~dialog_open
    /\ IsRunning
    /\ dialog_open' = TRUE
    /\ UNCHANGED <<thread_pc, cancel_requested, thread_result, signals,
                   run_enabled, cancel_enabled, runs, before_run, cancel_in_time,
                   returned_run, emitted>>
    /\ UNCHANGED <<coreVars, ret_second, mainVars, pathVars, scanVars, windowVars>>

\* The answer to the question of on_cancel; on Yes, thread.request_cancel().
\* The thread and the delivery of signals go on while the question is open.
AnswerCancel ==
    /\ dialog_open
    /\ dialog_open' = FALSE
    /\ \/ /\ cancel_requested' = TRUE
          /\ cancel_in_time' =
                (cancel_in_time \/ thread_pc \in {"start", "pre_check", "analyzing"})
       \/ UNCHANGED <<cancel_requested, cancel_in_time>>
    /\ UNCHANGED <<thread_pc, thread_result, signals, run_enabled, cancel_enabled,
                   runs, before_run, returned_run, emitted>>
    /\ UNCHANGED <<coreVars, ret_second, mainVars, pathVars, scanVars, windowVars>>

\* The main thread's event loop runs the slot of the oldest queued signal:
\* on_analysis_finished, on_analysis_canceled or on_analysis_error.
DeliverSignal ==
    /\ signals # <<>>
    /\ signals' = Tail(signals)
    /\ IF Head(signals).sig = "finished"
       THEN OnAnalysisFinished(Head(signals).groups, Head(signals).outdir)
       ELSE /\ run_enabled' = TRUE
            /\ cancel_enabled' = FALSE
            /\ UNCHANGED <<last_groups, last_outdir>>
    /\ UNCHANGED <<thread_pc, cancel_requested, thread_result, dialog_open, runs,
                   before_run, cancel_in_time, returned_run, emitted>>
    /\ UNCHANGED <<coreVars, ret_second, mainVars, pathVars, scanVars, json_file>>

NextWindow ==
    \/ OnRun
    \/ ThreadStart
    \/ ThreadPreCheck
    \/ ThreadAnalyze
    \/ ThreadPostCheck
    \/ OnCancel
    \/ AnswerCancel
    \/ DeliverSignal

SpecWindow == Init /\ [][NextWindow]_vars

\* The command-line runner cvs_config.main().

\* 'if args.start', 'if args.end': None and '' are falsy.
OptTruthy(opt) == opt.given /\ opt.text # ""

\* parse_date(date_str): a datetime, or ValueError when no format matches.
parse_date(date_str) ==
    IF date_str \in {"2024-01-01", "01.01.2024"}
    THEN [ok |-> TRUE, type |-> "datetime"]
    ELSE [ok |-> FALSE, type |-> "ValueError"]

\* The date range computed at lines 86-100: the types of start_date and
\* end_date, or the ValueError the except clause turns into 'return 1'.
DateRange(args) ==
    IF OptTruthy(args.start)
    THEN IF ~parse_date(args.start.text).ok
         THEN [ok |-> FALSE, start_date |-> "-", end_date |-> "-"]
         ELSE IF OptTruthy(args.end)
              THEN IF ~parse_date(args.end.text).ok
                   THEN [ok |-> FALSE, start_date |-> "-", end_date |-> "-"]
                   ELSE [ok |-> TRUE, start_date |-> "datetime",
                         end_date |-> "datetime"]
              ELSE \* (datetime.now() + timedelta(days=1)).strftime('%Y-%m-%d')
                   [ok |-> TRUE, start_date |-> "datetime", end_date |-> "str"]
    ELSE [ok |-> TRUE, start_date |-> "datetime", end_date |-> "datetime"]

\* main() run with the options args, analyze_repository ending as outcome
\* if it is called.
Main(args, outcome) ==
    /\ call = "none"
    /\ call' = "main"
    /\ argv' = args
    /\ arg_window' = args.window
    /\ IF args.days_given /\ args.start.given
       THEN \* parser.parse_args(): --start is not allowed with --days
            /\ raised' = "SystemExit"
            /\ main_return' = "none"
            /\ analysis_called' = FALSE
       ELSE IF ~DateRange(args).ok
       THEN \* "Date parsing error"
            /\ raised' = "none"
            /\ main_return' = "1"
            /\ analysis_called' = FALSE
       ELSE IF DateRange(args).end_date # "datetime"
       THEN \* end_date.strftime: a str has no strftime
            /\ raised' = "AttributeError"
            /\ main_return' = "none"
            /\ analysis_called' = FALSE
       ELSE IF ~args.path_exists
       THEN \* "Repository path does not exist"
            /\ raised' = "none"
            /\ main_return' = "1"
            /\ analysis_called' = FALSE
       ELSE /\ raised' = "none"
            /\ analysis_called' = TRUE
            /\ main_return' = IF outcome = "excel_file" THEN "0" ELSE "1"
    /\ UNCHANGED <<arg_entries, ret_groups, arg_text, ret_parsed, warnings,
                   ret_value, arg_groups, common_comments, log_entries,
                   grouped_commits>>
    /\ UNCHANGED <<ret_second, pathVars, scanVars, windowVars, threadVars>>

\* main() on command lines of every shape.
CallMain ==
    /\ call = "none"
    /\ \E days_given, path_exists \in BOOLEAN, start, end \in DateOpts,
          window \in WindowValues, outcome \in AnalysisOutcomes :
              Main(Argv(days_given, start, end, path_exists, window), outcome)

NextMain == CallMain

SpecMain == Init /\ [][NextMain]_vars

---------------------------------------------------------------------------
(* Properties of group_commits *)

\* The call group_commits(arg_entries, arg_window) returned ret_groups.
Grouped == call = "group_commits" /\ raised = "none"

\* The members of all groups, in output order.
RECURSIVE Members(_)
Members(groups) ==
    IF groups = <<>> THEN <<>>
    ELSE Members(SubSeq(groups, 1, Len(groups) - 1)) \o groups[Len(groups)].entries

Range(s) == {s[i] : i \in 1..Len(s)}

Count(s, x) == Cardinality({i \in 1..Len(s) : s[i] = x})

\* The index of the group that holds record x.
GroupOf(groups, x) ==
    CHOOSE g \in 1..Len(groups) : x \in Range(groups[g].entries)

\* C1: the member lists of the returned groups together hold each input
\* record exactly once: every record occurs as often among the members as
\* in the input (once, the records being distinct), and no group is empty.
C1_Partition ==
    Grouped =>
        LET ms == Members(ret_groups) IN
        /\ Len(ms) = Len(arg_entries)
        /\ \A x \in Range(arg_entries) \cup Range(ms) :
              /\ Count(ms, x) = Count(arg_entries, x)
              /\ Count(ms, x) = 1
        /\ \A g \in 1..Len(ret_groups) : ret_groups[g].entries # <<>>

\* Three records grouped into two groups, one of them with two members.
C1_Witness ==
    /\ Grouped
    /\ Len(arg_entries) = 3
    /\ Len(ret_groups) = 2
    /\ \E g \in 1..2 : Len(ret_groups[g].entries) = 2

\* C2: in every returned group all members have the group's author, by
\* exact (case-sensitive) equality.
C2_AuthorHomogeneity ==
    Grouped =>
        \A g \in 1..Len(ret_groups) :
            \A m \in 1..Len(ret_groups[g].entries) :
                ret_groups[g].entries[m].author = ret_groups[g].author

\* Two records at the same instant whose authors differ only in case end
\* in two groups, next to a group of two records by one author.
C2_Witness ==
    /\ Grouped
    /\ arg_window = 1
    /\ Len(ret_groups) = 2
    /\ ret_groups[1].author = "bob"
    /\ ret_groups[2].author = "Bob"
    /\ Len(ret_groups[1].entries) = 2
    /\ ret_groups[2].entries[1].date = ret_groups[1].entries[2].date

\* C3: in every returned group the members are in non-decreasing timestamp
\* order, and each consecutive pair is at most arg_window minutes apart and
\* has the same author.
C3_ChronologicalChaining ==
    Grouped =>
        \A g \in 1..Len(ret_groups) :
            LET ms == ret_groups[g].entries IN
            \A m \in 1..(Len(ms) - 1) :
                /\ ms[m].date <= ms[m + 1].date
                /\ ms[m + 1].date - ms[m].date <= arg_window * SecondsPerMinute
                /\ ms[m].author = ms[m + 1].author

\* A group of three members given out of timestamp order, the last two a
\* full window apart.
C3_Witness ==
    /\ Grouped
    /\ arg_window = 1
    /\ Len(ret_groups) = 1
    /\ Len(ret_groups[1].entries) = 3
    /\ arg_entries[1].date > arg_entries[2].date
    /\ ret_groups[1].entries[3].date - ret_groups[1].entries[2].date
          = SecondsPerMinute

\* C4: the returned groups carry the ids 1, 2, ..., n in output order, and a
\* group with a smaller id never has a later earliest member than a group
\* with a larger id.
C4_GroupOrdering ==
    Grouped =>
        /\ \A g \in 1..Len(ret_groups) : ret_groups[g].group_id = g
        /\ \A g, h \in 1..Len(ret_groups) :
              g < h => MinDate(ret_groups[g].entries) <= MinDate(ret_groups[h].entries)

\* Three groups whose records were given in descending timestamp order.
C4_Witness ==
    /\ Grouped
    /\ Len(ret_groups) = 3
    /\ arg_entries[1].date > arg_entries[2].date
    /\ arg_entries[2].date > arg_entries[3].date
    /\ ret_groups[3].group_id = 3

\* C5: the window boundary is inclusive: of two records adjacent in
\* timestamp order with the same author, the later joins the earlier one's
\* group when it is exactly arg_window minutes after it, and starts a new
\* group when it is one second more than arg_window minutes after it.
C5_BoundaryInclusive ==
    Grouped =>
        LET ms == Members(ret_groups) IN
        \A k \in 1..(Len(ms) - 1) :
            ms[k].author = ms[k + 1].author =>
                /\ ms[k + 1].date - ms[k].date = arg_window * SecondsPerMinute
                      => GroupOf(ret_groups, ms[k + 1]) = GroupOf(ret_groups, ms[k])
                /\ ms[k + 1].date - ms[k].date = arg_window * SecondsPerMinute + 1
                      => GroupOf(ret_groups, ms[k + 1]) = GroupOf(ret_groups, ms[k]) + 1

\* With a window of one minute: a record 61 s after its predecessor started
\* a new group, and a record exactly 60 s after its predecessor joined it.
C5_Witness ==
    /\ Grouped
    /\ arg_window = 1
    /\ Len(ret_groups) = 2
    /\ Len(ret_groups[1].entries) = 1
    /\ Len(ret_groups[2].entries) = 2
    /\ ret_groups[1].author = ret_groups[2].author
    /\ ret_groups[2].entries[1].date - ret_groups[1].entries[1].date
          = SecondsPerMinute + 1
    /\ ret_groups[2].entries[2].date - ret_groups[2].entries[1].date
          = SecondsPerMinute

\* C6: a zero or negative window is rejected before any grouping happens:
\* neither group_commits nor analyze_repository returns groups computed
\* with a window <= 0.
C6_NonPositiveWindowRejected ==
    /\ (call = "group_commits" /\ arg_window <= 0) => raised # "none"
    /\ (call = "analyze_repository" /\ arg_window <= 0) => ret_value # "excel_file"

\* C9: the records are ordered by timestamp ascending, and records with
\* equal timestamps keep their relative input order, across and within
\* groups (record k of the input carries revision k).
C9_StableSort ==
    Grouped =>
        LET ms == Members(ret_groups) IN
        \A i, j \in 1..Len(ms) :
            i < j =>
                /\ ms[i].date <= ms[j].date
                /\ ms[i].date = ms[j].date => ms[i].revision < ms[j].revision

\* Three records with one timestamp, the first two in one group and the
\* third, by another author, in a second group, in input order.
C9_Witness ==
    /\ Grouped
    /\ Len(arg_entries) = 3
    /\ \A k \in 1..3 : arg_entries[k].date = arg_entries[1].date
    /\ Len(ret_groups) = 2
    /\ Len(ret_groups[1].entries) = 2
    /\ Members(ret_groups) = arg_entries

\* C13: in every returned group start_time is the earliest member timestamp
\* and that of the first member, end_time the latest and that of the last
\* member, file_count the number of members, and files the members' file
\* paths in member order, a file revised twice being listed twice.
C13_GroupAggregates ==
    Grouped =>
        \A g \in 1..Len(ret_groups) :
            LET grp == ret_groups[g]
                ms == ret_groups[g].entries
            IN /\ grp.start_time = ms[1].date
               /\ grp.end_time = ms[Len(ms)].date
               /\ \A m \in 1..Len(ms) :
                     /\ grp.start_time <= ms[m].date
                     /\ grp.end_time >= ms[m].date
               /\ grp.file_count = Len(ms)
               /\ Len(grp.files) = Len(ms)
               /\ \A m \in 1..Len(ms) : grp.files[m] = ms[m].file

\* A group of three members that spans more than a second, in which one file
\* was revised twice before the other file was.
C13_Witness ==
    /\ Grouped
    /\ Len(ret_groups) = 1
    /\ ret_groups[1].file_count = 3
    /\ ret_groups[1].start_time < ret_groups[1].entries[2].date
    /\ ret_groups[1].entries[2].date < ret_groups[1].end_time
    /\ ret_groups[1].files = <<FileOf(1), FileOf(3), FileOf(2)>>

\* C17: the window is chained: of two records adjacent in timestamp order
\* with the same author, the later is in the earlier one's group whenever it
\* is at most arg_window minutes after it, however long after the group's
\* first record that is.
C17_ChainedWindow ==
    Grouped =>
        LET ms == Members(ret_groups) IN
        \A k \in 1..(Len(ms) - 1) :
            (/\ ms[k].author = ms[k + 1].author
             /\ ms[k + 1].date - ms[k].date <= arg_window * SecondsPerMinute)
                => GroupOf(ret_groups, ms[k + 1]) = GroupOf(ret_groups, ms[k])

\* One group of three members, each a full window after its predecessor: the
\* group lasts two windows.
C17_Witness ==
    /\ Grouped
    /\ arg_window = 1
    /\ Len(ret_groups) = 1
    /\ Len(ret_groups[1].entries) = 3
    /\ ret_groups[1].end_time - ret_groups[1].start_time
          > arg_window * SecondsPerMinute
    /\ ret_groups[1].entries[3].date - ret_groups[1].entries[1].date
          = 2 * arg_window * SecondsPerMinute

\* C19: groups are maximal: the first member of a group has another author
\* than the last member of the group before it, or is more than arg_window
\* minutes after it; and two records of one author with a record of another
\* author between them in timestamp order are in different groups.
C19_GroupsMaximal ==
    Grouped =>
        /\ \A g \in 1..(Len(ret_groups) - 1) :
              LET last_entry == ret_groups[g].entries[Len(ret_groups[g].entries)]
                  first_entry == ret_groups[g + 1].entries[1]
              IN \/ first_entry.author # last_entry.author
                 \/ first_entry.date - last_entry.date
                       > arg_window * SecondsPerMinute
        /\ LET ms == Members(ret_groups) IN
           \A i, j, k \in 1..Len(ms) :
               (i < j /\ j < k /\ ms[i].author = ms[k].author
                      /\ ms[j].author # ms[i].author)
                   => GroupOf(ret_groups, ms[i]) # GroupOf(ret_groups, ms[k])

\* Three records within two seconds, the middle one by another author: three
\* groups, although the first and the last record are within the window.
C19_Witness ==
    /\ Grouped
    /\ arg_window = 1
    /\ Len(ret_groups) = 3
    /\ ret_groups[1].author = ret_groups[3].author
    /\ ret_groups[2].author # ret_groups[1].author
    /\ ret_groups[3].start_time - ret_groups[1].end_time
          <= arg_window * SecondsPerMinute

---------------------------------------------------------------------------
(* Properties of parse_log_output, the exporters and analyze_repository *)

\* The entries of a text whose date text matches no accepted format: the
\* revision markers directly followed by a metadata line with such a date.
BadDateEntries(log_output) ==
    LET lines == log_output.lines IN
    Cardinality({i \in 1..(Len(lines) - 1) :
                    /\ MatchesRevision(lines[i])
                    /\ MatchesDate(lines[i + 1])
                    /\ ~ParseDate(DateStrOf(lines[i + 1]), 1).ok})

\* C7: parsing produces, together with the record collection, a count of the
\* entries skipped for an unparseable date, equal to the number of entries
\* whose date text matched no accepted format.
C7_SkipCountReturned ==
    call = "parse_log_output" =>
        /\ "skipped" \in DOMAIN ret_parsed
        /\ ret_parsed.skipped = BadDateEntries(arg_text)

\* The non-empty comment with the highest count among the members, the one
\* met first in member order among those that tie; "" without any.
RepresentativeComment(entries) ==
    LET comments == NonEmptyComments(entries) IN
    IF comments = <<>> THEN <<>> ELSE MaxByCount(comments, comments)

\* C8: the representative comment of a group is its most frequent non-empty
\* member comment, the first in member order among those that tie (the
\* empty string when no member has a comment).
C8_FirstEncounteredTieBreak ==
    call = "export_to_excel" =>
        \A g \in 1..Len(arg_groups) :
            common_comments[g] = RepresentativeComment(arg_groups[g].entries)

\* C10: empty input is not an error: parse_log_output on an empty or absent
\* text returns no record, group_commits on no record returns no group, and
\* analyze_repository on an empty or absent text ends with no group; none of
\* them raises.
C10_EmptyInputNoError ==
    /\ (call = "parse_log_output" /\ Falsy(arg_text))
          => (raised = "none" /\ ret_parsed.entries = <<>>)
    /\ (call = "group_commits" /\ arg_entries = <<>>)
          => (raised = "none" /\ ret_groups = <<>>)
    /\ (call = "analyze_repository" /\ Falsy(arg_text))
          => (raised = "none" /\ grouped_commits = <<>> /\ log_entries = <<>>)

\* analyze_repository has run on the empty text "" and returned None.
C10_Witness ==
    /\ call = "analyze_repository"
    /\ ~arg_text.absent
    /\ arg_text.lines = <<>>
    /\ raised = "none"
    /\ ret_value = "None"

\* The call parse_log_output(arg_text) returned ret_parsed.entries.
Parsed == call = "parse_log_output" /\ raised = "none"

\* Line i lies in a section: a section marker precedes it.
InSection(lines, i) == \E h \in 1..(i - 1) : IsSectionMarker(lines[h])

\* Line i is a revision marker directly followed by a metadata line.
EntryAt(lines, i) ==
    /\ i + 1 <= Len(lines)
    /\ InSection(lines, i)
    /\ MatchesRevision(lines[i])
    /\ MatchesDate(lines[i + 1])

\* The entry at line i has a date in an accepted format.
WellFormedAt(lines, i) ==
    EntryAt(lines, i) /\ ParseDate(DateStrOf(lines[i + 1]), 1).ok

\* The entry at line i has a date no format accepts.
BadDateAt(lines, i) ==
    EntryAt(lines, i) /\ ~ParseDate(DateStrOf(lines[i + 1]), 1).ok

\* The records returned for the revision marker at line i.
RecordsOf(recs, lines, i) ==
    {r \in 1..Len(recs) : recs[r].revision = lines[i].revision}

\* C11: every revision marker of a section that is directly followed by a
\* metadata line with a date in an accepted format yields exactly one
\* record, whatever precedes the marker, and the call does not raise.
C11_OneRecordPerWellFormedEntry ==
    call = "parse_log_output" =>
        /\ raised = "none"
        /\ \A i \in 1..Len(arg_text.lines) :
              WellFormedAt(arg_text.lines, i)
                  => Cardinality(RecordsOf(ret_parsed.entries, arg_text.lines, i)) = 1

\* The first line from j on that ends a comment or starts a section, or the
\* index past the last line.
RECURSIVE NextStop(_, _)
NextStop(lines, j) ==
    IF j > Len(lines) \/ EndsComment(lines[j]) \/ IsSectionMarker(lines[j]) THEN j
    ELSE NextStop(lines, j + 1)

C18_CleanPathIdempotent ==
    call = "extract_filename" =>
        /\ \A k \in 1..(Len(ret_path) - 2) :
              SubSeq(ret_path, k, k + 2) # <<"/", "RCS", "/">>
        /\ (ret_path # <<>> => ret_path[Len(ret_path)] # ",v")
        /\ extract_filename(ret_path) = ret_path

\* C20: the line scan of a section terminates: every iteration of the outer
\* loop moves the index forward, by no more than to the position after the
\* last line's successor, also the iteration that skips an entry with an
\* unparseable date and the one that abandons an entry without metadata.
C20_IndexStrictlyIncreases ==
    [][ScanIteration =>
          /\ scan_i' > scan_i
          /\ scan_i' <= Len(scan_lines) + 2]_vars

\* The scan of a section is over, having abandoned an entry whose marker no
\* metadata line followed and skipped an entry with an unparseable date.
C20_Witness ==
    /\ call = "scan"
    /\ scan_i > Len(scan_lines)
    /\ scan_warned = 1
    /\ scan_entries = <<>>
    /\ \E i \in 1..(Len(scan_lines) - 1) :
          MatchesRevision(scan_lines[i]) /\ ~MatchesDate(scan_lines[i + 1])

C16_CancelDiscardsResult ==
    cancel_in_time =>
        /\ emitted # "finished"
        /\ \A k \in 1..Len(signals) : signals[k].sig # "finished"
        /\ last_groups = before_run.groups
        /\ last_outdir = before_run.outdir

\* The second run was canceled while analyze_repository was running; the
\* call returned, canceled_signal was emitted and delivered, and the window
\* still holds the groups of the first run.
C16_Witness ==
    /\ cancel_in_time
    /\ returned_run
    /\ runs = 2
    /\ thread_pc = "done"
    /\ emitted = "canceled"
    /\ signals = <<>>
    /\ last_groups # <<>>
    /\ last_outdir = OutDir(1)

\* C21: every execution of run() emits exactly one of finished_signal,
\* error_signal and canceled_signal, however request_cancel interleaves with
\* it: none while the thread runs, and once it is over the one signal is
\* either queued, with Run still disabled and Cancel enabled, or its slot has
\* run and has enabled Run and disabled Cancel; finished_signal is emitted
\* only after analyze_repository has returned.
C21_OneTerminalSignal ==
    /\ IsRunning =>
          /\ emitted = "none"
          /\ signals = <<>>
          /\ ~run_enabled
          /\ cancel_enabled
    /\ thread_pc = "done" =>
          /\ emitted \in {"finished", "canceled", "error"}
          /\ \/ /\ Len(signals) = 1
                /\ signals[1].sig = emitted
                /\ ~run_enabled
                /\ cancel_enabled
             \/ /\ signals = <<>>
                /\ run_enabled
                /\ ~cancel_enabled
    /\ emitted = "finished" => returned_run

\* A run ended with finished_signal although request_cancel ran, after the
\* last test of the flag; the slot has run and the buttons are reset.
C21_Witness ==
    /\ thread_pc = "done"
    /\ emitted = "finished"
    /\ cancel_requested
    /\ signals = <<>>
    /\ run_enabled
    /\ ~cancel_enabled

\* C22: main() returns 0 or 1 for every combination of its options and lets
\* no exception escape; with --start given as a date, with or without --end,
\* and with --days, it reaches the analysis call when the path exists.
C22_MainReturnsExitCode ==
    call = "main" =>
        /\ raised = "none"
        /\ main_return \in {"0", "1"}
        /\ (/\ argv.path_exists
            /\ ~(argv.days_given /\ argv.start.given)
            /\ OptTruthy(argv.start) => parse_date(argv.start.text).ok
            /\ (OptTruthy(argv.start) /\ OptTruthy(argv.end))
                  => parse_date(argv.end.text).ok)
              => analysis_called

====
